---- MODULE Spec2Model ----
(***************************************************************************)
(* Verification model of the MLB analytics natural-language search path:   *)
(* the query resolver behind POST /api/v1/search/natural/ (entity          *)
(* catalog, extractor, intent classifier, planner, result aggregator,      *)
(* ambiguity handler), the mobile client's search operations that call     *)
(* it, and the client's paired team-profile/team-games fetch.              *)
(*                                                                         *)
(* A query text is a sequence of symbols: each symbol is a whole word or   *)
(* one whitespace character.  Confidences are percentages (1.0 = 100).     *)
(***************************************************************************)
EXTENDS Integers, Sequences, FiniteSets, TLC

\* ---------------------------------------------------------------- bounds
MaxLen == 3          \* longest query text, in symbols
NumBoxScores == 2    \* tolerable box-score Fetch Steps of a PLAYER_AT_VENUE plan
MaxSearches == 1     \* handleSearch calls that reach addSearch
MaxAuthOps == 2      \* login, register and logout calls in progress at once
MaxRequests == 1     \* other API requests in flight at once
MaxClock == 3        \* latest value of Date.now() while searches are recorded
MaxCacheClock == 4   \* latest value of Date.now(), in units of 100 s, while the cache is used
MaxGets == 1         \* cacheStorage.get calls in progress at once
MaxFavOps == 2       \* addFavoriteTeam/addFavoritePlayer calls in progress at once
MaxOverlap == 2      \* handleSearch calls made while earlier ones may be in progress

\* ------------------------------------------------------------ query texts
Blank == " "
Words == {"aaron", "judge", "dodger", "standings", "zzz"}
Alphabet == Words \cup {Blank}
Texts == UNION {[1..n -> Alphabet] : n \in 0..MaxLen}

RECURSIVE TrimStart(_)
TrimStart(s) ==
  IF s # <<>> /\ Head(s) = Blank THEN TrimStart(Tail(s)) ELSE s

RECURSIVE TrimEnd(_)
TrimEnd(s) ==
  IF s # <<>> /\ s[Len(s)] = Blank THEN TrimEnd(SubSeq(s, 1, Len(s) - 1)) ELSE s

TrimIdentity(s) == s
\* String.prototype.trim: leading and trailing whitespace removed
Trim(s) == TrimEnd(TrimStart(s))

\* `!searchQuery.trim()`: the empty string is the only falsy string
IsBlankQuery(s) == Trim(s) = <<>>

IsWord(c) == c # Blank
\* whitespace-separated tokens of a query text
Tokenize(s) == SelectSeq(s, IsWord)

\* ---------------------------------------------------------- entity catalog
CatalogSeq ==
  << [id |-> 592450, kind |-> "player", canonicalName |-> <<"aaron", "judge">>,
      aliases |-> << <<"judge">>, <<"aaron">> >>],
     [id |-> 457706, kind |-> "player", canonicalName |-> <<"joe", "judge">>,
      aliases |-> << <<"judge">> >>],
     [id |-> 6956, kind |-> "venue", canonicalName |-> <<"dodger", "stadium">>,
      aliases |-> << <<"dodger">> >>] >>

Kinds == {"player", "team", "venue"}

ConfidenceFloor == 35

MatchType(e, span) ==
  IF span = e.canonicalName THEN "exact"
  ELSE IF \E i \in 1..Len(e.aliases) : e.aliases[i] = span THEN "alias"
  ELSE "none"

MatchConfidence(mt) ==
  CASE mt = "exact" -> 100
    [] mt = "alias" -> 80
    [] mt = "fuzzy" -> 60
    [] OTHER -> 0

CandidateMatch(e, span) ==
  [span |-> span, entity |-> e.id, kind |-> e.kind,
   confidence |-> MatchConfidence(MatchType(e, span)),
   matchType |-> MatchType(e, span)]

RECURSIVE MatchesOfType(_, _, _, _)
MatchesOfType(kind, span, mt, i) ==
  IF i > Len(CatalogSeq) THEN <<>>
  ELSE LET e == CatalogSeq[i]
           rest == MatchesOfType(kind, span, mt, i + 1)
       IN IF e.kind = kind /\ MatchType(e, span) = mt
               /\ MatchConfidence(mt) >= ConfidenceFloor
          THEN <<CandidateMatch(e, span)>> \o rest
          ELSE rest

\* lookup(kind, text): candidates ranked exact > alias > fuzzy, empty when
\* nothing clears the confidence floor
lookup(kind, span) ==
  MatchesOfType(kind, span, "exact", 1) \o MatchesOfType(kind, span, "alias", 1)
    \o MatchesOfType(kind, span, "fuzzy", 1)

LookupAllKinds(span) ==
  lookup("player", span) \o lookup("team", span) \o lookup("venue", span)

\* ---------------------------------------------------------- entity extractor
RECURSIVE LongestMatch(_, _)
\* longest-match-first: the full remaining token sequence, then shorter prefixes
LongestMatch(tokens, n) ==
  IF n = 0 THEN 0
  ELSE IF LookupAllKinds(SubSeq(tokens, 1, n)) # <<>> THEN n
  ELSE LongestMatch(tokens, n - 1)

RECURSIVE extract(_)
\* extract(queryText): the accepted spans with all their candidates; a token
\* that starts no matching span is omitted (NoCandidateMatch)
extract(tokens) ==
  IF tokens = <<>> THEN <<>>
  ELSE LET n == LongestMatch(tokens, Len(tokens))
       IN IF n = 0 THEN extract(Tail(tokens))
          ELSE <<[span |-> SubSeq(tokens, 1, n),
                  candidates |-> LookupAllKinds(SubSeq(tokens, 1, n))]>>
                 \o extract(SubSeq(tokens, n + 1, Len(tokens)))

\* ---------------------------------------------------------- intent classifier
Intents ==
  << [name |-> "PLAYER_AT_VENUE", required |-> {"player", "venue"}, keywords |-> {}],
     [name |-> "PLAYER_SEASON_STAT", required |-> {"player"}, keywords |-> {}],
     [name |-> "TEAM_STANDING", required |-> {}, keywords |-> {"standings"}] >>

NoIntent == [name |-> "NONE", required |-> {}, keywords |-> {}]

CandidatesOfKind(ex, kind) ==
  {c \in UNION {{ex[i].candidates[j] : j \in 1..Len(ex[i].candidates)} : i \in 1..Len(ex)} :
     c.kind = kind}

SetMax(S) == CHOOSE m \in S : \A n \in S : n <= m
SetMin(S) == CHOOSE m \in S : \A n \in S : m <= n

EligibleIgnoringKinds(intent, tokens, ex) ==
  intent.keywords = {} \/ \E i \in 1..Len(tokens) : tokens[i] \in intent.keywords

\* an intent is eligible only if its trigger fires and every required kind has
\* at least one bound candidate
Eligible(intent, tokens, ex) ==
  /\ \A k \in intent.required : CandidatesOfKind(ex, k) # {}
  /\ (intent.keywords = {} \/ \E i \in 1..Len(tokens) : tokens[i] \in intent.keywords)

\* minimum, over the required kinds, of the best candidate's confidence
IntentConfidence(intent, ex) ==
  IF intent.required = {} THEN 100
  ELSE SetMin({SetMax({c.confidence : c \in CandidatesOfKind(ex, k)}) : k \in intent.required})

\* ranking: (1) required kinds matched, (2) minimum entity confidence,
\* (3) declaration order
RanksBefore(i, j, ex) ==
  LET a == Intents[i]
      b == Intents[j]
  IN \/ Cardinality(a.required) > Cardinality(b.required)
     \/ /\ Cardinality(a.required) = Cardinality(b.required)
        /\ IntentConfidence(a, ex) > IntentConfidence(b, ex)
     \/ /\ Cardinality(a.required) = Cardinality(b.required)
        /\ IntentConfidence(a, ex) = IntentConfidence(b, ex)
        /\ i < j

RECURSIVE RankIntents(_, _)
RankIntents(S, ex) ==
  IF S = {} THEN <<>>
  ELSE LET best == CHOOSE i \in S : \A j \in S \ {i} : RanksBefore(i, j, ex)
       IN <<Intents[best]>> \o RankIntents(S \ {best}, ex)

\* classify(queryText, extractedEntities): the eligible intents, ranked
classify(tokens, ex) ==
  RankIntents({i \in 1..Len(Intents) : Eligible(Intents[i], tokens, ex)}, ex)

\* -------------------------------------------------------------- entity binding
\* the candidates of one span that share the top confidence for a kind
TopCandidates(cands, kind) ==
  LET ofKind == {cands[j] : j \in {j \in 1..Len(cands) : cands[j].kind = kind}}
  IN IF ofKind = {} THEN {}
     ELSE {c \in ofKind : c.confidence = SetMax({d.confidence : d \in ofKind})}

FirstSpanOfKind(ex, kind) ==
  SetMin({i \in 1..Len(ex) : TopCandidates(ex[i].candidates, kind) # {}})

NeverAmbiguous(intent, ex) == {}
\* the candidates that tie for a slot the intent needs exactly one entity for
AmbiguousCandidates(intent, ex) ==
  UNION {TopCandidates(ex[i].candidates, k) :
           <<i, k>> \in {p \in (1..Len(ex)) \X intent.required :
                           Cardinality(TopCandidates(ex[p[1]].candidates, p[2])) > 1}}

\* one candidate per required kind: the top candidate of the first span that
\* has one (only used when no slot is ambiguous)
BindEntities(intent, ex) ==
  {c \in UNION {TopCandidates(ex[FirstSpanOfKind(ex, k)].candidates, k) :
                  k \in {k \in intent.required : CandidatesOfKind(ex, k) # {}}} :
     \A d \in TopCandidates(ex[FirstSpanOfKind(ex, c.kind)].candidates, c.kind) :
        c.entity <= d.entity}

\* --------------------------------------------------------------- query planner
BoxNames == <<"box1", "box2", "box3", "box4">>

\* plan(intent, boundEntities): the intent's fixed step template
plan(intent, boundEntities) ==
  CASE intent.name = "PLAYER_AT_VENUE" ->
         <<[name |-> "gameLog", op |-> "getGameLog", deps |-> {}, fatal |-> TRUE]>>
           \o [i \in 1..NumBoxScores |->
                 [name |-> BoxNames[i], op |-> "getBoxScore",
                  deps |-> {"gameLog"}, fatal |-> FALSE]]
    [] intent.name = "PLAYER_SEASON_STAT" ->
         <<[name |-> "seasonStats", op |-> "getSeasonStats", deps |-> {}, fatal |-> TRUE]>>
    [] intent.name = "TEAM_STANDING" ->
         <<[name |-> "standings", op |-> "getStandings", deps |-> {}, fatal |-> TRUE]>>
    [] OTHER -> <<>>

StepIndex(p, name) == CHOOSE i \in 1..Len(p) : p[i].name = name

\* the fact source's data for a step (fixed: the fact source is not mutated)
FactData(p, i) ==
  CASE p[i].op = "getGameLog" -> NumBoxScores
    [] p[i].op = "getBoxScore" -> i
    [] p[i].op = "getSeasonStats" -> 62
    [] OTHER -> 1

\* ------------------------------------------------- ambiguity/fallback handler
NoResult == [kind |-> "none"]
Cancelled == [kind |-> "cancelled"]

EntitySuggestion(c) == [entity |-> c.entity, intent |-> "", confidence |-> c.confidence]
IntentSuggestion(i) == [entity |-> 0, intent |-> Intents[i].name, confidence |-> 0]

PlanExecutionError(stepName, cause) == [step |-> stepName, cause |-> cause]

\* handle(stage, context): always a response object
handle(stage, context) ==
  CASE stage = "CLASSIFY" ->
         [kind |-> "clarification", reason |-> "UNRECOGNIZED_QUERY",
          suggestions |-> {IntentSuggestion(i) : i \in 1..Len(Intents)},
          prompt |-> "rephrase"]
    [] stage = "BIND" ->
         [kind |-> "clarification", reason |-> "AMBIGUOUS_ENTITY",
          suggestions |-> {EntitySuggestion(c) : c \in context},
          prompt |-> "which one"]
    [] OTHER ->
         [kind |-> "clarification", reason |-> "DATA_UNAVAILABLE",
          suggestions |-> {}, prompt |-> "try again later"]

RaiseToCaller(err) == [kind |-> "exception", error |-> err]
\* a fatal step's PlanExecutionError is surfaced through the handler
OnFatalStepFailure(err) == handle("EXECUTE", err)

UndefinedStage == "FAILED"
\* the stage a failed call moves to
HaltStage == "CLARIFICATION_NEEDED"

\* ------------------------------------------------------------ result aggregator
RECURSIVE SumData(_)
SumData(S) ==
  IF S = {} THEN 0
  ELSE LET o == CHOOSE o \in S : TRUE IN o.data + SumData(S \ {o})

OutputOf(outs, name) == (CHOOSE o \in outs : o.name = name).data

\* the intent's aggregation function: derived facts from the bound outputs
DerivedFacts(intent, outs) ==
  LET boxes == {o \in outs : \E i \in 1..Len(BoxNames) : o.name = BoxNames[i]} IN
  CASE intent.name = "PLAYER_AT_VENUE" ->
         {[name |-> "games", data |-> Cardinality(boxes)],
          [name |-> "hits", data |-> SumData(boxes)]}
    [] intent.name = "PLAYER_SEASON_STAT" ->
         {[name |-> "homeRuns", data |-> SumData(outs)]}
    [] OTHER ->
         {[name |-> "divisionRank", data |-> SumData(outs)]}

FactsOf(intent, outs) ==
  LET all == outs \cup DerivedFacts(intent, outs)
  IN [f \in {o.name : o \in all} |-> OutputOf(all, f)]

MaxConfidence(bound) ==
  IF bound = {} THEN 100 ELSE SetMax({c.confidence : c \in bound})
\* the propagated minimum of the contributing match confidences
AnswerConfidence(bound) ==
  IF bound = {} THEN 100 ELSE SetMin({c.confidence : c \in bound})

NeverPartial(gapSet) == FALSE
\* true if any tolerable step failed
IsPartial(gapSet) == gapSet # {}

Aggregate(intent, bound, outs, gapSet) ==
  [kind |-> "answer", intent |-> intent.name, boundEntities |-> bound,
   facts |-> FactsOf(intent, outs), confidence |-> AnswerConfidence(bound),
   partial |-> IsPartial(gapSet),
   narrative |-> <<intent.name, FactsOf(intent, outs)>>]

\* derived facts are computed only after all steps have completed
AllStepsDone(st) == \A i \in 1..Len(st) : st[i] \in {"ok", "failed"}

\* reference: the plan executed one step at a time in declared order, with
\* the fact source's outcome for each step given
RECURSIVE ExecuteInOrder(_, _, _, _, _, _, _)
ExecuteInOrder(intent, bound, p, outcome, i, outs, gapSet) ==
  IF i > Len(p) THEN Aggregate(intent, bound, outs, gapSet)
  ELSE IF outcome[i] = "ok"
       THEN ExecuteInOrder(intent, bound, p, outcome, i + 1,
                           outs \cup {[name |-> p[i].name, data |-> FactData(p, i)]}, gapSet)
       ELSE IF p[i].fatal
            THEN OnFatalStepFailure(PlanExecutionError(p[i].name, "failed"))
            ELSE ExecuteInOrder(intent, bound, p, outcome, i + 1, outs,
                                gapSet \cup {p[i].name})

\* ======================================================================
\* State
\* ======================================================================
VARIABLES
  request,        \* the HTTP request in flight to POST /api/v1/search/natural/
  response,       \* the HTTP response (or transport failure) in flight back
  caller,         \* who the resolver is resolving for ("none" when idle)
  queryText,      \* the text of the call being resolved
  trace,          \* the stages the current resolve call has been in, in order
  extracted,      \* Entity Extractor output
  ranked,         \* Intent Classifier output
  boundEntities,  \* the candidates bound to the chosen intent's required kinds
  queryPlan,      \* the Query Plan
  stepState,      \* per Fetch Step: waiting, inflight, ok, failed, cancelled
  outputs,        \* step outputs bound to the names the steps declare
  gaps,           \* names of the tolerable steps that failed
  answer,         \* the Answer built once every step has completed
  result,         \* what resolve returns
  \* --- SearchScreen (screens/search/SearchScreen.tsx)
  screenPc,       \* where handleSearch is: idle, awaitNL, awaitPlayers
  screenQuery,    \* the searchQuery argument of the running handleSearch
  loading,
  nlResponse,
  results,
  recentSearches, \* useSearchStore.recentSearches
  playerReq,      \* the searchPlayers request: none, pending
  \* --- useNaturalLanguageSearch (hooks/index.ts)
  hookPc,         \* where search is: idle, await
  hookQuery,      \* the searchQuery argument of the running search
  hookLoading,
  hookResults,
  \* --- MLBApiService.naturalLanguageSearch
  nlOutcome,      \* how the pending call settled: returned a value or threw
  \* --- TeamDetailsScreen (screens/settings/SettingsScreen.tsx)
  teamPc,         \* where loadTeamData is: idle, loading
  profileReq,     \* getTeamProfile promise: none, pending, fulfilled, rejected
  gamesReq,       \* getTeamGames promise, and its payload when fulfilled
  team,
  recentGames,
  upcomingGames,
  teamLoading,
  refreshing,
  statsChart,
  \* --- useAuthStore (store/index_clean.ts)
  user,
  isAuthenticated,
  isLoading,
  error,
  authStorage,    \* AsyncStorage item 'auth-storage' written by persist
  hydrated,       \* persist has merged 'auth-storage' into the store
  \* --- MLBApiService (utils/index.ts)
  authToken,      \* this.authToken
  secureToken,    \* SecureStore item 'auth_token'
  tokenLoad,      \* loadAuthToken started by the constructor: pending, done
  authOps,        \* login, register and logout calls in progress
  dataReqs,       \* other API requests in flight, with the header they carry
  \* --- the app process and LoginScreen
  session,        \* cold (first launch), restarted, used
  alert,          \* what the last Alert.alert of LoginScreen showed
  \* --- Date.now(), cacheStorage (utils/index.ts)
  now,
  cacheItems,     \* AsyncStorage items 'cache:<key>'
  cacheGets,      \* cacheStorage.get calls in progress
  cacheReturned,  \* what the last completed cacheStorage.get returned
  \* --- useFavoritesStore (store/index_clean.ts)
  favoriteTeams,
  favoritePlayers,
  favOps,         \* addFavoriteTeam / addFavoritePlayer calls in progress
  favSettled,     \* how the last addFavoriteTeam / addFavoritePlayer call to settle ended
  \* --- SearchScreen (screens/search/SearchScreen.tsx), overlapping calls
  searchCalls     \* the handleSearch calls made, each with its position

resolverVars == <<caller, queryText, trace, extracted, ranked, boundEntities,
                  queryPlan, stepState, outputs, gaps, answer, result>>

clientVars == <<screenPc, screenQuery, loading, nlResponse, results, recentSearches,
                playerReq, hookPc, hookQuery, hookLoading, hookResults, nlOutcome>>

teamVars == <<teamPc, profileReq, gamesReq, team, recentGames, upcomingGames,
              teamLoading, refreshing, statsChart>>

storeVars == <<user, isAuthenticated, isLoading, error, authStorage>>

authVars == <<storeVars, hydrated, authToken, secureToken, tokenLoad, authOps,
              dataReqs, session, alert>>

cacheVars == <<cacheItems, cacheGets, cacheReturned>>

favVars == <<favoriteTeams, favoritePlayers, favOps, favSettled>>

appVars == <<authVars, now, cacheVars, favVars, searchCalls>>

NoMsg == [origin |-> "none"]

Terminal == {"ANSWERED", "CLARIFICATION_NEEDED", "CANCELLED"}

Stage == IF trace = <<>> THEN "NONE" ELSE trace[Len(trace)]

ChosenIntent == IF ranked = <<>> THEN NoIntent ELSE ranked[1]

ResolverIdle ==
  /\ caller = "none"
  /\ queryText = <<>>
  /\ trace = <<>>
  /\ extracted = <<>>
  /\ ranked = <<>>
  /\ boundEntities = {}
  /\ queryPlan = <<>>
  /\ stepState = <<>>
  /\ outputs = {}
  /\ gaps = {}
  /\ answer = NoResult
  /\ result = NoResult

\* ======================================================================
\* The resolver (POST handler and the resolve pipeline)
\* ======================================================================

\* POST {query}: empty text is malformed input (4xx); anything else starts
\* a resolve call in stage RECEIVED
BackendReceive ==
  /\ UNCHANGED appVars
  /\ UNCHANGED <<clientVars, teamVars>>
  /\ request # NoMsg
  /\ caller = "none"
  /\ response = NoMsg
  /\ request' = NoMsg
  /\ IF request.text = <<>>
     THEN /\ response' = [origin |-> request.origin, status |-> 400, body |-> NoResult]
          /\ UNCHANGED resolverVars
     ELSE /\ caller' = request.origin
          /\ queryText' = request.text
          /\ trace' = <<"RECEIVED">>
          /\ UNCHANGED <<response, extracted, ranked, boundEntities, queryPlan,
                         stepState, outputs, gaps, answer, result>>

\* RECEIVED -> EXTRACTED
ExtractStep ==
  /\ UNCHANGED appVars
  /\ UNCHANGED <<clientVars, teamVars>>
  /\ Stage = "RECEIVED"
  /\ extracted' = extract(Tokenize(queryText))
  /\ trace' = Append(trace, "EXTRACTED")
  /\ UNCHANGED <<request, response, caller, queryText, ranked, boundEntities,
                 queryPlan, stepState, outputs, gaps, answer, result>>

\* EXTRACTED -> CLASSIFIED, or NO_INTENT_MATCHED
ClassifyStep ==
  /\ UNCHANGED appVars
  /\ UNCHANGED <<clientVars, teamVars>>
  /\ Stage = "EXTRACTED"
  /\ LET r == classify(Tokenize(queryText), extracted)
     IN IF r = <<>>
        THEN /\ result' = handle("CLASSIFY", extracted)
             /\ trace' = Append(trace, HaltStage)
             /\ ranked' = ranked
        ELSE /\ ranked' = r
             /\ trace' = Append(trace, "CLASSIFIED")
             /\ result' = result
  /\ UNCHANGED <<request, response, caller, queryText, extracted, boundEntities,
                 queryPlan, stepState, outputs, gaps, answer>>

\* CLASSIFIED -> PLANNED, or AmbiguousEntity
PlanStep ==
  /\ UNCHANGED appVars
  /\ UNCHANGED <<clientVars, teamVars>>
  /\ Stage = "CLASSIFIED"
  /\ LET amb == AmbiguousCandidates(ChosenIntent, extracted)
     IN IF amb # {}
        THEN /\ result' = handle("BIND", amb)
             /\ trace' = Append(trace, HaltStage)
             /\ UNCHANGED <<boundEntities, queryPlan, stepState>>
        ELSE /\ boundEntities' = BindEntities(ChosenIntent, extracted)
             /\ queryPlan' = plan(ChosenIntent, boundEntities')
             /\ stepState' = [i \in 1..Len(queryPlan') |-> "waiting"]
             /\ trace' = Append(trace, "PLANNED")
             /\ result' = result
  /\ UNCHANGED <<request, response, caller, queryText, extracted, ranked,
                 outputs, gaps, answer>>

DepsMet(i) ==
  \A d \in queryPlan[i].deps : stepState[StepIndex(queryPlan, d)] = "ok"

\* a step whose dependencies are bound is sent to the fact source; siblings
\* may be outstanding together
DispatchStep(i) ==
  /\ UNCHANGED appVars
  /\ UNCHANGED <<clientVars, teamVars>>
  /\ Stage = "PLANNED"
  /\ stepState[i] = "waiting"
  /\ DepsMet(i)
  /\ stepState' = [stepState EXCEPT ![i] = "inflight"]
  /\ UNCHANGED <<request, response, caller, queryText, trace, extracted, ranked,
                 boundEntities, queryPlan, outputs, gaps, answer, result>>

\* the fact source answers step i: its output is bound to the step's name
StepSucceeds(i) ==
  /\ UNCHANGED appVars
  /\ UNCHANGED <<clientVars, teamVars>>
  /\ Stage = "PLANNED"
  /\ stepState[i] = "inflight"
  /\ stepState' = [stepState EXCEPT ![i] = "ok"]
  /\ outputs' = outputs \cup {[name |-> queryPlan[i].name, data |-> FactData(queryPlan, i)]}
  /\ UNCHANGED <<request, response, caller, queryText, trace, extracted, ranked,
                 boundEntities, queryPlan, gaps, answer, result>>

AbortOutstanding(st) ==
  [j \in 1..Len(st) |-> IF st[j] \in {"inflight", "waiting"} THEN "cancelled" ELSE st[j]]

\* step i's call fails or times out: fatal aborts the plan, tolerable is a gap
StepFails(i, cause) ==
  /\ UNCHANGED appVars
  /\ UNCHANGED <<clientVars, teamVars>>
  /\ Stage = "PLANNED"
  /\ stepState[i] = "inflight"
  /\ IF queryPlan[i].fatal
     THEN /\ stepState' = AbortOutstanding([stepState EXCEPT ![i] = "failed"])
          /\ result' = OnFatalStepFailure(PlanExecutionError(queryPlan[i].name, cause))
          /\ trace' = Append(trace, HaltStage)
          /\ gaps' = gaps
     ELSE /\ stepState' = [stepState EXCEPT ![i] = "failed"]
          /\ gaps' = gaps \cup {queryPlan[i].name}
          /\ UNCHANGED <<result, trace>>
  /\ UNCHANGED <<request, response, caller, queryText, extracted, ranked,
                 boundEntities, queryPlan, outputs, answer>>

\* PLANNED -> EXECUTED: every step has completed; derived facts are computed
ExecuteDone ==
  /\ UNCHANGED appVars
  /\ UNCHANGED <<clientVars, teamVars>>
  /\ Stage = "PLANNED"
  /\ AllStepsDone(stepState)
  /\ answer' = Aggregate(ChosenIntent, boundEntities, outputs, gaps)
  /\ trace' = Append(trace, "EXECUTED")
  /\ UNCHANGED <<request, response, caller, queryText, extracted, ranked,
                 boundEntities, queryPlan, stepState, outputs, gaps, result>>

\* EXECUTED -> ANSWERED
Respond ==
  /\ UNCHANGED appVars
  /\ UNCHANGED <<clientVars, teamVars>>
  /\ Stage = "EXECUTED"
  /\ result' = answer
  /\ trace' = Append(trace, "ANSWERED")
  /\ UNCHANGED <<request, response, caller, queryText, extracted, ranked,
                 boundEntities, queryPlan, stepState, outputs, gaps, answer>>

CancelOutstanding(st) ==
  [j \in 1..Len(st) |-> IF st[j] \in {"inflight", "waiting"} THEN "cancelled" ELSE st[j]]

LeaveOutstanding(st) == st
\* cancellation reaches every outstanding Fetch Step
PropagateCancel(st) == CancelOutstanding(st)

\* the caller cancels its in-flight resolve call
Cancel ==
  /\ UNCHANGED appVars
  /\ UNCHANGED <<clientVars, teamVars>>
  /\ caller = "direct"
  /\ trace # <<>>
  /\ Stage \notin Terminal
  /\ stepState' = PropagateCancel(stepState)
  /\ result' = Cancelled
  /\ trace' = Append(trace, "CANCELLED")
  /\ UNCHANGED <<request, response, caller, queryText, extracted, ranked,
                 boundEntities, queryPlan, outputs, gaps, answer>>

\* the finished call's result goes back to its caller as 200 {answer} or
\* 200 {clarification}; the resolver keeps nothing of the call
Reply ==
  /\ UNCHANGED appVars
  /\ UNCHANGED <<clientVars, teamVars>>
  /\ caller # "none"
  /\ Stage \in Terminal
  /\ response = NoMsg
  /\ response' = [origin |-> caller, status |-> 200, body |-> result]
  /\ caller' = "none"
  /\ queryText' = <<>>
  /\ trace' = <<>>
  /\ extracted' = <<>>
  /\ ranked' = <<>>
  /\ boundEntities' = {}
  /\ queryPlan' = <<>>
  /\ stepState' = <<>>
  /\ outputs' = {}
  /\ gaps' = {}
  /\ answer' = NoResult
  /\ result' = NoResult
  /\ UNCHANGED request

\* ======================================================================
\* A caller that uses the resolve operation directly
\* ======================================================================
DirectSend(t) ==
  /\ UNCHANGED appVars
  /\ UNCHANGED <<clientVars, teamVars>>
  /\ request = NoMsg
  /\ response = NoMsg
  /\ caller = "none"
  /\ request' = [origin |-> "direct", text |-> t]
  /\ UNCHANGED <<response, resolverVars>>

DirectReturn ==
  /\ UNCHANGED appVars
  /\ UNCHANGED <<clientVars, teamVars>>
  /\ response # NoMsg
  /\ response.origin = "direct"
  /\ response' = NoMsg
  /\ UNCHANGED <<request, resolverVars>>

\* ======================================================================
\* The mobile client: MLBApiService.naturalLanguageSearch, SearchScreen
\* handleSearch, useNaturalLanguageSearch.search
\* ======================================================================
SampleQueries ==
  { <<>>, <<Blank>>, <<Blank, Blank>>, <<"judge">>, <<Blank, "standings">>,
    <<"aaron", "dodger">>, <<"aaron">>, <<"zzz">> }

NoOutcome == [owner |-> "none"]

\* JavaScript truthiness of a response body: null is falsy, an object truthy
Truthy(v) == v # NoResult

\* `nlResult.results || []`
ResultsOf(body) == IF "results" \in DOMAIN body THEN body.results ELSE <<>>

\* `response.success`
HasSuccess(body) == "success" \in DOMAIN body /\ body.success = TRUE

Min2(a, b) == IF a <= b THEN a ELSE b

\* `recentSearches.slice(0, 19)`
KeptSearches == 19

addSearchKeepsAll(history, query, res) ==
  <<[id |-> now, query |-> query, timestamp |-> now, results |-> Len(res)]>> \o history
\* useSearchStore.addSearch: newest first, the last 20 kept
addSearch(history, query, res) ==
  <<[id |-> now, query |-> query, timestamp |-> now, results |-> Len(res)]>>
    \o SubSeq(history, 1, Min2(KeptSearches, Len(history)))

ClientFree ==
  /\ screenPc = "idle"
  /\ hookPc = "idle"
  /\ request = NoMsg
  /\ response = NoMsg
  /\ caller = "none"
  /\ nlOutcome = NoOutcome

\* handleSearch(searchQuery), up to the first await
HandleSearch(q) ==
  /\ UNCHANGED appVars
  /\ ClientFree
  /\ Len(recentSearches) < MaxSearches
  /\ IF IsBlankQuery(q)
     THEN UNCHANGED <<request, screenPc, screenQuery, loading>>
     ELSE /\ loading' = TRUE
          /\ screenQuery' = q
          /\ screenPc' = "awaitNL"
          /\ request' = [origin |-> "screen", text |-> q]
  /\ UNCHANGED <<response, resolverVars, teamVars, nlResponse, results, recentSearches,
                 playerReq, hookPc, hookQuery, hookLoading, hookResults, nlOutcome>>

\* the request fails on the way: no response (status 0: network error or
\* timeout) or an upstream 5xx
RequestFails(status) ==
  /\ UNCHANGED appVars
  /\ request # NoMsg
  /\ response = NoMsg
  /\ response' = [origin |-> request.origin, status |-> status, body |-> NoResult]
  /\ request' = NoMsg
  /\ UNCHANGED <<resolverVars, clientVars, teamVars>>

\* naturalLanguageSearch: response.data of a 2xx response, otherwise
\* throw new Error(error.response?.data?.message || 'Search failed')
SettleNaturalLanguageSearch(resp) ==
  IF resp.status = 200
  THEN [state |-> "returned", value |-> resp.body]
  ELSE [state |-> "thrown", value |-> [kind |-> "error", message |-> "Search failed"]]

NLSearchSettles ==
  /\ UNCHANGED appVars
  /\ response # NoMsg
  /\ response.origin \in {"screen", "hook"}
  /\ nlOutcome = NoOutcome
  /\ nlOutcome' = [owner |-> response.origin,
                   state |-> SettleNaturalLanguageSearch(response).state,
                   value |-> SettleNaturalLanguageSearch(response).value]
  /\ response' = NoMsg
  /\ UNCHANGED <<request, resolverVars, teamVars, screenPc, screenQuery, loading,
                 nlResponse, results, recentSearches, playerReq, hookPc, hookQuery,
                 hookLoading, hookResults>>

\* handleSearch after `await mlbApi.naturalLanguageSearch(searchQuery)`
HandleSearchAfterNL ==
  /\ UNCHANGED appVars
  /\ screenPc = "awaitNL"
  /\ nlOutcome.owner = "screen"
  /\ nlOutcome' = NoOutcome
  /\ IF nlOutcome.state = "returned"
     THEN /\ IF Truthy(nlOutcome.value)
             THEN /\ nlResponse' = nlOutcome.value
                  /\ recentSearches' =
                       addSearch(recentSearches, screenQuery, ResultsOf(nlOutcome.value))
             ELSE UNCHANGED <<nlResponse, recentSearches>>
          /\ playerReq' = "pending"
          /\ screenPc' = "awaitPlayers"
          /\ UNCHANGED <<loading, screenQuery>>
     ELSE /\ loading' = FALSE
          /\ screenPc' = "idle"
          /\ screenQuery' = <<>>
          /\ UNCHANGED <<nlResponse, recentSearches, playerReq>>
  /\ UNCHANGED <<request, response, resolverVars, teamVars, results, hookPc, hookQuery,
                 hookLoading, hookResults>>

Players ==
  << [id |-> 592450, name |-> "Aaron Judge", position |-> "RF", team |-> "NYY"],
     [id |-> 457706, name |-> "Joe Judge", position |-> "1B", team |-> "WSH"] >>

PlayerSearchOutcomes ==
  { [ok |-> FALSE, players |-> <<>>], [ok |-> TRUE, players |-> <<>>],
    [ok |-> TRUE, players |-> SubSeq(Players, 1, 1)], [ok |-> TRUE, players |-> Players] }

SearchResultOf(player) ==
  [id |-> player.id, type |-> "player", title |-> player.name,
   subtitle |-> <<player.position, player.team>>, data |-> player, relevance |-> 1]

\* handleSearch from `await mlbApi.searchPlayers(searchQuery)` to its end
PlayerSearchSettles(o) ==
  /\ UNCHANGED appVars
  /\ screenPc = "awaitPlayers"
  /\ playerReq = "pending"
  /\ playerReq' = "none"
  /\ IF o.ok /\ Len(o.players) > 0
     THEN results' = [i \in 1..Len(o.players) |-> SearchResultOf(o.players[i])]
     ELSE results' = results
  /\ loading' = FALSE
  /\ screenPc' = "idle"
  /\ screenQuery' = <<>>
  /\ UNCHANGED <<request, response, resolverVars, teamVars, nlResponse, recentSearches,
                 hookPc, hookQuery, hookLoading, hookResults, nlOutcome>>

\* useNaturalLanguageSearch.search(searchQuery), up to the await
HookSearch(q) ==
  /\ UNCHANGED appVars
  /\ ClientFree
  /\ Len(recentSearches) < MaxSearches
  /\ IF IsBlankQuery(q)
     THEN /\ hookResults' = NoResult
          /\ UNCHANGED <<request, hookPc, hookQuery, hookLoading>>
     ELSE /\ hookLoading' = TRUE
          /\ hookQuery' = q
          /\ hookPc' = "await"
          /\ request' = [origin |-> "hook", text |-> q]
          /\ hookResults' = hookResults
  /\ UNCHANGED <<response, resolverVars, teamVars, screenPc, screenQuery, loading,
                 nlResponse, results, recentSearches, playerReq, nlOutcome>>

\* search after `await mlbApi.naturalLanguageSearch(searchQuery)`
HookAfterNL ==
  /\ UNCHANGED appVars
  /\ hookPc = "await"
  /\ nlOutcome.owner = "hook"
  /\ nlOutcome' = NoOutcome
  /\ IF nlOutcome.state = "returned" /\ HasSuccess(nlOutcome.value)
     THEN hookResults' = nlOutcome.value.data
     ELSE hookResults' = hookResults
  /\ hookLoading' = FALSE
  /\ hookPc' = "idle"
  /\ hookQuery' = <<>>
  /\ UNCHANGED <<request, response, resolverVars, teamVars, screenPc, screenQuery,
                 loading, nlResponse, results, recentSearches, playerReq>>

\* another client of the same endpoint
OtherClientSend(t) ==
  /\ screenPc = "idle"
  /\ hookPc = "idle"
  /\ Len(recentSearches) < MaxSearches
  /\ DirectSend(t)

\* ======================================================================
\* SearchScreen.handleSearch, calls that overlap
\* ======================================================================
OverlapQueries == { <<Blank>>, <<"judge">>, <<"aaron">> }

\* the players the backend finds for a query
PlayersFor(q) == IF q = <<"judge">> THEN Players ELSE SubSeq(Players, 1, 1)

\* the body of a natural-language response to a query
NLBodyFor(q) == [kind |-> "answer", response |-> q, results |-> PlayersFor(q)]

SearchResultsOf(players) == [i \in 1..Len(players) |-> SearchResultOf(players[i])]

otherThanOverlap == <<request, response, resolverVars, teamVars, authVars, now, cacheVars,
                      favVars, screenPc, screenQuery, playerReq, hookPc, hookQuery,
                      hookLoading, hookResults, nlOutcome>>

InFlight == {c \in searchCalls : c.pc # "done"}

\* handleSearch(searchQuery), up to `await mlbApi.naturalLanguageSearch`
SubmitSearch(q) ==
  /\ Cardinality(searchCalls) < MaxOverlap
  /\ IF IsBlankQuery(q)
     THEN UNCHANGED <<loading, searchCalls>>
     ELSE /\ loading' = TRUE
          /\ searchCalls' = searchCalls \cup
               {[n |-> Cardinality(searchCalls) + 1, query |-> q, pc |-> "awaitNL",
                 nlShown |-> FALSE, playersShown |-> FALSE]}
  /\ UNCHANGED <<otherThanOverlap, nlResponse, results, recentSearches>>

\* the natural-language search of call c returns a body (null or an answer):
\* handleSearch up to `await mlbApi.searchPlayers`
OverlapNLReturns(c, body) ==
  /\ c \in searchCalls
  /\ c.pc = "awaitNL"
  /\ IF Truthy(body)
     THEN /\ nlResponse' = body
          /\ recentSearches' = addSearch(recentSearches, c.query, ResultsOf(body))
     ELSE UNCHANGED <<nlResponse, recentSearches>>
  /\ searchCalls' = (searchCalls \ {c}) \cup
       {[c EXCEPT !.pc = "awaitPlayers", !.nlShown = Truthy(body)]}
  /\ UNCHANGED <<otherThanOverlap, loading, results>>

\* the natural-language search of call c throws: catch, then
\* `finally { setLoading(false) }`
OverlapNLThrows(c) ==
  /\ c \in searchCalls
  /\ c.pc = "awaitNL"
  /\ loading' = FALSE
  /\ searchCalls' = (searchCalls \ {c}) \cup {[c EXCEPT !.pc = "done"]}
  /\ UNCHANGED <<otherThanOverlap, nlResponse, results, recentSearches>>

\* the player search of call c settles: handleSearch to its end
OverlapPlayersSettle(c, o) ==
  /\ c \in searchCalls
  /\ c.pc = "awaitPlayers"
  /\ IF o.ok /\ Len(o.players) > 0
     THEN results' = SearchResultsOf(o.players)
     ELSE results' = results
  /\ loading' = FALSE
  /\ searchCalls' = (searchCalls \ {c}) \cup
       {[c EXCEPT !.pc = "done", !.playersShown = (o.ok /\ Len(o.players) > 0)]}
  /\ UNCHANGED <<otherThanOverlap, nlResponse, recentSearches>>

\* how the player search for a query can settle
PlayerOutcomesFor(q) ==
  { [ok |-> FALSE, players |-> <<>>], [ok |-> TRUE, players |-> <<>>],
    [ok |-> TRUE, players |-> PlayersFor(q)] }

OverlapNext ==
  \/ \E q \in OverlapQueries : SubmitSearch(q)
  \/ \E c \in searchCalls : \E body \in {NoResult, NLBodyFor(c.query)} :
       OverlapNLReturns(c, body)
  \/ \E c \in searchCalls : OverlapNLThrows(c)
  \/ \E c \in searchCalls : \E o \in PlayerOutcomesFor(c.query) :
       OverlapPlayersSettle(c, o)

\* ======================================================================
\* TeamDetailsScreen.loadTeamData
\* ======================================================================
NoTeam == [id |-> 0]
TeamProfile == [id |-> 147, location |-> "New York", name |-> "Yankees"]

NotAnArray == [array |-> FALSE, games |-> <<>>]
GamesPayloads ==
  { NotAnArray,
    [array |-> TRUE, games |-> <<>>],
    [array |-> TRUE, games |-> <<[id |-> 1, past |-> TRUE, status |-> "final"]>>],
    [array |-> TRUE, games |-> <<[id |-> 1, past |-> TRUE, status |-> "final"],
                                 [id |-> 2, past |-> FALSE, status |-> "scheduled"]>>],
    [array |-> TRUE, games |-> <<[id |-> 1, past |-> TRUE, status |-> "postponed"],
                                 [id |-> 2, past |-> FALSE, status |-> "scheduled"]>>] }

IsRecent(g) == g.past /\ g.status = "final"
IsUpcoming(g) == ~g.past

\* Array.prototype.slice(0, 5)
Slice5(seq) == SubSeq(seq, 1, Min2(5, Len(seq)))

\* loadTeamData up to `await Promise.all([...])`: both requests are issued
LoadTeamData(isRefresh) ==
  /\ UNCHANGED appVars
  /\ teamPc = "idle"
  /\ teamPc' = "loading"
  /\ profileReq' = "pending"
  /\ gamesReq' = [state |-> "pending", payload |-> NotAnArray]
  /\ refreshing' = isRefresh
  /\ UNCHANGED <<request, response, resolverVars, clientVars, team, recentGames,
                 upcomingGames, teamLoading, statsChart>>

ProfileSettles(ok) ==
  /\ UNCHANGED appVars
  /\ profileReq = "pending"
  /\ profileReq' = IF ok THEN "fulfilled" ELSE "rejected"
  /\ UNCHANGED <<request, response, resolverVars, clientVars, teamPc, gamesReq, team,
                 recentGames, upcomingGames, teamLoading, refreshing, statsChart>>

GamesSettles(ok, payload) ==
  /\ UNCHANGED appVars
  /\ gamesReq.state = "pending"
  /\ gamesReq' = IF ok THEN [state |-> "fulfilled", payload |-> payload]
                       ELSE [state |-> "rejected", payload |-> NotAnArray]
  /\ UNCHANGED <<request, response, resolverVars, clientVars, teamPc, profileReq, team,
                 recentGames, upcomingGames, teamLoading, refreshing, statsChart>>

FirstFulfilled(p, g) == p = "fulfilled"
\* Promise.all fulfils when every promise has fulfilled
PromiseAllFulfilled(p, g) == p = "fulfilled" /\ g = "fulfilled"

\* Promise.all rejects as soon as one promise rejects
PromiseAllRejected(p, g) == p = "rejected" \/ g = "rejected"

\* loadTeamData after `await Promise.all([...])`, to its end (and onRefresh's
\* setRefreshing(false) after it)
LoadTeamDataResumes ==
  /\ UNCHANGED appVars
  /\ teamPc = "loading"
  /\ \/ /\ PromiseAllFulfilled(profileReq, gamesReq.state)
        /\ team' = TeamProfile
        /\ IF gamesReq.state = "fulfilled" /\ gamesReq.payload.array
           THEN /\ recentGames' = Slice5(SelectSeq(gamesReq.payload.games, IsRecent))
                /\ upcomingGames' = Slice5(SelectSeq(gamesReq.payload.games, IsUpcoming))
           ELSE UNCHANGED <<recentGames, upcomingGames>>
        /\ statsChart' = TRUE
     \/ /\ PromiseAllRejected(profileReq, gamesReq.state)
        /\ UNCHANGED <<team, recentGames, upcomingGames, statsChart>>
  /\ teamLoading' = FALSE
  /\ refreshing' = FALSE
  /\ teamPc' = "idle"
  /\ profileReq' = "none"
  /\ gamesReq' = [state |-> "none", payload |-> NotAnArray]
  /\ UNCHANGED <<request, response, resolverVars, clientVars>>

\* ======================================================================
\* cacheStorage (utils/index.ts); times are in units of 100 seconds
\* ======================================================================
CacheKeys == {"standings"}
CacheData == {"d1", "d2"}
Null == "null"
NoItem == [present |-> FALSE]
NoReturn == [returned |-> FALSE]

\* `ttl: number = 5 * 60 * 1000`, that is 3 units of 100 seconds
DefaultTtl == 3

Ttls == {1, DefaultTtl}

otherThanCache == <<request, response, resolverVars, clientVars, teamVars, authVars,
                    favVars, searchCalls>>

\* time passes while the cache is in use
CacheTick ==
  /\ now < MaxCacheClock
  /\ now' = now + 1
  /\ UNCHANGED <<otherThanCache, cacheVars>>

\* cacheStorage.set(key, data, ttl)
CacheSet(key, data, ttl) ==
  /\ cacheItems' = [cacheItems EXCEPT
                      ![key] = [present |-> TRUE, data |-> data, timestamp |-> now,
                                ttl |-> ttl]]
  /\ UNCHANGED <<otherThanCache, now, cacheGets, cacheReturned>>

\* cacheStorage.remove(key)
CacheRemove(key) ==
  /\ cacheItems' = [cacheItems EXCEPT ![key] = NoItem]
  /\ UNCHANGED <<otherThanCache, now, cacheGets, cacheReturned>>

\* a number for the next call of cacheStorage.get
FreeGetId == CHOOSE i \in 1..MaxGets : \A g \in cacheGets : g.id # i

\* cacheStorage.get(key), up to `await storage.getItem(...)`: the item is read
CacheGet(key) ==
  /\ Cardinality(cacheGets) < MaxGets
  /\ cacheGets' = cacheGets \cup {[id |-> FreeGetId, key |-> key, item |-> cacheItems[key],
                                   pc |-> "read"]}
  /\ UNCHANGED <<otherThanCache, now, cacheItems, cacheReturned>>

NeverExpired(item, t) == FALSE
\* `Date.now() - cacheItem.timestamp > cacheItem.ttl`
isExpired(item, t) == t - item.timestamp > item.ttl

\* cacheStorage.get after the read: null when there is no item, the data when
\* it has not expired, otherwise storage.removeItem is awaited
CacheGetResumes(g) ==
  /\ g \in cacheGets
  /\ g.pc = "read"
  /\ IF ~g.item.present
     THEN /\ cacheReturned' = [returned |-> TRUE, key |-> g.key, value |-> Null, at |-> now]
          /\ cacheGets' = cacheGets \ {g}
     ELSE IF isExpired(g.item, now)
     THEN /\ cacheGets' = (cacheGets \ {g}) \cup {[g EXCEPT !.pc = "removing"]}
          /\ cacheReturned' = cacheReturned
     ELSE /\ cacheReturned' = [returned |-> TRUE, key |-> g.key, value |-> g.item.data,
                               at |-> now]
          /\ cacheGets' = cacheGets \ {g}
  /\ UNCHANGED <<otherThanCache, now, cacheItems>>

\* cacheStorage.get from the end of storage.removeItem: return null
CacheGetRemoved(g) ==
  /\ g \in cacheGets
  /\ g.pc = "removing"
  /\ cacheItems' = [cacheItems EXCEPT ![g.key] = NoItem]
  /\ cacheReturned' = [returned |-> TRUE, key |-> g.key, value |-> Null, at |-> now]
  /\ cacheGets' = cacheGets \ {g}
  /\ UNCHANGED <<otherThanCache, now>>

CacheNext ==
  \/ CacheTick
  \/ \E key \in CacheKeys, data \in CacheData, ttl \in Ttls : CacheSet(key, data, ttl)
  \/ \E key \in CacheKeys : CacheRemove(key)
  \/ \E key \in CacheKeys : CacheGet(key)
  \/ \E g \in cacheGets : CacheGetResumes(g)
  \/ \E g \in cacheGets : CacheGetRemoved(g)

\* ======================================================================
\* Favorites: useFavoritesStore (store/index_clean.ts)
\* ======================================================================
FavIds == {1, 2}
NoSettled == [outcome |-> "none"]

otherThanFavorites == <<request, response, resolverVars, clientVars, teamVars, authVars,
                        now, cacheVars, searchCalls>>

\* `list.includes(id)`
includes(list, id) == \E i \in 1..Len(list) : list[i] = id

\* `list.filter(x => x !== id)`
filterOut(list, id) == SelectSeq(list, LAMBDA x : x # id)

AddedAlways(list, id) == Append(list, id)
AddedNever(list, id) == list
\* `if (!list.includes(id)) set({ list: [...list, id] })`
Added(list, id) == IF includes(list, id) THEN list ELSE Append(list, id)

\* a number for the next call of addFavoriteTeam or addFavoritePlayer
FreeFavCall == CHOOSE i \in 1..MaxFavOps : \A op \in favOps : op.call # i

\* addFavoriteTeam(teamId), up to `await mlbApi.addFavoriteTeam(teamId)`
addFavoriteTeam(teamId) ==
  /\ Cardinality(favOps) < MaxFavOps
  /\ favOps' = favOps \cup {[call |-> FreeFavCall, kind |-> "team", id |-> teamId]}
  /\ UNCHANGED <<otherThanFavorites, favoriteTeams, favoritePlayers, favSettled>>

\* addFavoritePlayer(playerId), up to `await mlbApi.addFavoritePlayer(playerId)`
addFavoritePlayer(playerId) ==
  /\ Cardinality(favOps) < MaxFavOps
  /\ favOps' = favOps \cup {[call |-> FreeFavCall, kind |-> "player", id |-> playerId]}
  /\ UNCHANGED <<otherThanFavorites, favoriteTeams, favoritePlayers, favSettled>>

\* the POST succeeded: read the list, add the id unless it is included; the
\* call resolves
AddFavoritePosted(op) ==
  /\ op \in favOps
  /\ favOps' = favOps \ {op}
  /\ IF op.kind = "team"
     THEN /\ favoriteTeams' = Added(favoriteTeams, op.id)
          /\ favoritePlayers' = favoritePlayers
     ELSE /\ favoritePlayers' = Added(favoritePlayers, op.id)
          /\ favoriteTeams' = favoriteTeams
  /\ favSettled' = [outcome |-> "resolved", call |-> op.call, kind |-> op.kind,
                    id |-> op.id]
  /\ UNCHANGED otherThanFavorites

\* `error.response?.data?.message`, when the response carries none
NoMessage == ""
ResponseMessages == {NoMessage, "Not found"}

\* `new Error(error.response?.data?.message || 'Failed to add favorite team')`
\* thrown by mlbApi and rethrown by the store's catch
FavoriteError(kind, message) ==
  IF message # NoMessage THEN message
  ELSE IF kind = "team" THEN "Failed to add favorite team"
  ELSE "Failed to add favorite player"

\* the POST failed: the error is logged and rethrown
AddFavoriteFails(op, message) ==
  /\ op \in favOps
  /\ favOps' = favOps \ {op}
  /\ favSettled' = [outcome |-> "rejected", call |-> op.call, kind |-> op.kind,
                    id |-> op.id, error |-> FavoriteError(op.kind, message)]
  /\ UNCHANGED <<otherThanFavorites, favoriteTeams, favoritePlayers>>

\* `get().favoriteTeams.includes(teamId)`
isFavoriteTeam(teamId) == includes(favoriteTeams, teamId)

\* `get().favoritePlayers.includes(playerId)`
isFavoritePlayer(playerId) == includes(favoritePlayers, playerId)

removeFavoriteTeam(teamId) ==
  /\ favoriteTeams' = filterOut(favoriteTeams, teamId)
  /\ UNCHANGED <<otherThanFavorites, favoritePlayers, favOps, favSettled>>

removeFavoritePlayer(playerId) ==
  /\ favoritePlayers' = filterOut(favoritePlayers, playerId)
  /\ UNCHANGED <<otherThanFavorites, favoriteTeams, favOps, favSettled>>

FavoritesNext ==
  \/ \E id \in FavIds : addFavoriteTeam(id)
  \/ \E id \in FavIds : addFavoritePlayer(id)
  \/ \E op \in favOps : AddFavoritePosted(op)
  \/ \E op \in favOps, message \in ResponseMessages : AddFavoriteFails(op, message)
  \/ \E id \in FavIds : removeFavoriteTeam(id)
  \/ \E id \in FavIds : removeFavoritePlayer(id)

\* ======================================================================
\* Authentication: useAuthStore, MLBApiService login/register/logout and
\* interceptors, LoginScreen, SettingsScreen.handleLogout, AppNavigator
\* ======================================================================
NoUser == [id |-> 0]
NoError == "none"
NoToken == "none"
NoAlert == "none"
NotPersisted == [present |-> FALSE]

\* what the backend answers to a successful login or register: { token, user }
Accounts ==
  { [token |-> "tokA", user |-> [id |-> 1, preferences |-> [notifications |-> TRUE]]],
    [token |-> "tokB", user |-> [id |-> 2, preferences |-> [notifications |-> TRUE]]] }

TokenOf(u) == (CHOOSE a \in Accounts : a.user.id = u.id).token

nonAuthVars == <<request, response, resolverVars, clientVars, teamVars, now,
                 cacheVars, favVars, searchCalls>>

\* zustand set() under persist: the new state is also written to 'auth-storage'
StoreSet(u, ia, il, e) ==
  /\ user' = u
  /\ isAuthenticated' = ia
  /\ isLoading' = il
  /\ error' = e
  /\ authStorage' = [present |-> TRUE, user |-> u, isAuthenticated |-> ia,
                     isLoading |-> il, error |-> e]

\* AppNavigator: the screens registered in the root stack
MainScreens == {"MainTabs", "PlayerProfile", "TeamDetails"}
AuthScreens == {"Login", "Register"}
AllScreens == MainScreens \cup AuthScreens
RegisteredScreens == IF ~isAuthenticated THEN AuthScreens ELSE MainScreens

\* persist has rehydrated and the constructor's token load has finished
Booted == hydrated /\ tokenLoad = "done"

\* the login and register calls in progress
LoginOps(ops) == {op \in ops : op.kind \in {"login", "register"}}

\* the identity of a new login or register call: the smallest number no such
\* call in progress has
FreeId == CHOOSE i \in 1..(Cardinality(authOps) + 1) :
            /\ i \notin {op.id : op \in LoginOps(authOps)}
            /\ \A j \in 1..(i - 1) : j \in {op.id : op \in LoginOps(authOps)}

\* error.response?.data?.message || 'Login failed' / 'Registration failed'
ErrorMessage(kind, status) ==
  IF status = 400 THEN "Invalid credentials"
  ELSE IF kind = "login" THEN "Login failed" ELSE "Registration failed"

\* useAuthStore.login / register, up to `await mlbApi.login(...)`
StoreLogin(kind) ==
  /\ Cardinality(authOps) < MaxAuthOps
  /\ StoreSet(user, isAuthenticated, TRUE, NoError)
  /\ authOps' = authOps \cup {[id |-> FreeId, kind |-> kind, layer |-> "store", pc |-> "post",
                               token |-> NoToken, acct |-> NoUser]}
  /\ session' = "used"
  /\ UNCHANGED <<nonAuthVars, hydrated, authToken, secureToken, tokenLoad, dataReqs,
                 alert>>

\* MLBApiService.login / register: the POST succeeded; this.authToken = token,
\* then SecureStore.setItemAsync is awaited
AuthPostSucceeds(op, a) ==
  /\ op \in authOps
  /\ op.kind \in {"login", "register"}
  /\ op.pc = "post"
  /\ authToken' = a.token
  /\ authOps' = (authOps \ {op}) \cup {[op EXCEPT !.pc = "store", !.token = a.token,
                                                  !.acct = a.user]}
  /\ UNCHANGED <<nonAuthVars, storeVars, hydrated, secureToken, tokenLoad, dataReqs,
                 session, alert>>

\* login / register from the end of SecureStore.setItemAsync: return
\* { token, user }; the store sets user and isAuthenticated; handleRegister
\* shows its success alert
LoginStored(op) ==
  /\ op \in authOps
  /\ op.pc = "store"
  /\ secureToken' = op.token
  /\ StoreSet(op.acct, TRUE, FALSE, error)
  /\ authOps' = authOps \ {op}
  /\ alert' = IF op.kind = "register" THEN "Account created successfully!" ELSE alert
  /\ UNCHANGED <<nonAuthVars, hydrated, authToken, tokenLoad, dataReqs, session>>

RejectedResetsUser(op, status) ==
  /\ StoreSet(NoUser, FALSE, FALSE, ErrorMessage(op.kind, status))
  /\ alert' = ErrorMessage(op.kind, status)
  /\ authOps' = authOps \ {op}

\* the catch of login / register in the service, the store and the screen:
\* error and isLoading are set, the error is rethrown and shown
LoginRejected(op, status) ==
  /\ StoreSet(user, isAuthenticated, FALSE, ErrorMessage(op.kind, status))
  /\ alert' = ErrorMessage(op.kind, status)
  /\ authOps' = authOps \ {op}

\* the POST of login / register failed: no response (0) or an error status
AuthPostFails(op, status) ==
  /\ op \in authOps
  /\ op.kind \in {"login", "register"}
  /\ op.pc = "post"
  /\ IF status = 401
     THEN /\ authOps' = (authOps \ {op}) \cup {[op EXCEPT !.pc = "authErr"]}
          /\ UNCHANGED <<storeVars, alert>>
     ELSE LoginRejected(op, status)
  /\ UNCHANGED <<nonAuthVars, hydrated, authToken, secureToken, tokenLoad, dataReqs,
                 session>>

\* useAuthStore.logout, up to `await mlbApi.logout()`
StoreLogout ==
  /\ Cardinality(authOps) < MaxAuthOps
  /\ StoreSet(user, isAuthenticated, TRUE, error)
  /\ authOps' = authOps \cup {[id |-> 0, kind |-> "logout", layer |-> "store", pc |-> "post",
                               token |-> NoToken, acct |-> NoUser]}
  /\ session' = "used"
  /\ UNCHANGED <<nonAuthVars, hydrated, authToken, secureToken, tokenLoad, dataReqs,
                 alert>>

\* SettingsScreen.handleLogout, 'Logout' pressed: `await mlbApi.logout()` first
ScreenLogout ==
  /\ Cardinality(authOps) < MaxAuthOps
  /\ authOps' = authOps \cup {[id |-> 0, kind |-> "logout", layer |-> "screen", pc |-> "post",
                               token |-> NoToken, acct |-> NoUser]}
  /\ session' = "used"
  /\ UNCHANGED <<nonAuthVars, storeVars, hydrated, authToken, secureToken, tokenLoad,
                 dataReqs, alert>>

\* MLBApiService.logout: the POST settled, with whatever outcome; the finally
\* block awaits SecureStore.deleteItemAsync (after the interceptor on a 401)
LogoutPostSettles(op, status) ==
  /\ op \in authOps
  /\ op.kind = "logout"
  /\ op.pc = "post"
  /\ authOps' = (authOps \ {op})
                  \cup {[op EXCEPT !.pc = IF status = 401 THEN "authErr" ELSE "delete"]}
  /\ UNCHANGED <<nonAuthVars, storeVars, hydrated, authToken, secureToken, tokenLoad,
                 dataReqs, session, alert>>

LogoutKeepsUser == StoreSet(user, FALSE, FALSE, NoError)
\* the finally block of useAuthStore.logout
LogoutFinally == StoreSet(NoUser, FALSE, FALSE, NoError)

\* MLBApiService.logout from the end of deleteItemAsync: this.authToken = null;
\* then the store's finally block, or, in handleLogout, the call of the
\* store's logout()
LogoutDeleted(op) ==
  /\ op \in authOps
  /\ op.pc = "delete"
  /\ secureToken' = NoToken
  /\ authToken' = NoToken
  /\ IF op.layer = "store"
     THEN /\ LogoutFinally
          /\ authOps' = authOps \ {op}
     ELSE /\ StoreSet(user, isAuthenticated, TRUE, error)
          /\ authOps' = (authOps \ {op}) \cup {[op EXCEPT !.layer = "store", !.pc = "post"]}
  /\ UNCHANGED <<nonAuthVars, hydrated, tokenLoad, dataReqs, session, alert>>

\* response interceptor on a 401 of a login, register or logout POST:
\* handleAuthError deletes the token and clears this.authToken, then the
\* error is rejected to the caller
AuthErrorHandled(op) ==
  /\ op \in authOps
  /\ op.pc = "authErr"
  /\ secureToken' = NoToken
  /\ authToken' = NoToken
  /\ IF op.kind = "logout"
     THEN /\ authOps' = (authOps \ {op}) \cup {[op EXCEPT !.pc = "delete"]}
          /\ UNCHANGED <<storeVars, alert>>
     ELSE LoginRejected(op, 401)
  /\ UNCHANGED <<nonAuthVars, hydrated, tokenLoad, dataReqs, session>>

AlwaysUpdates == TRUE
\* `if (!user) return;`
HasUser == user # NoUser

\* { ...user, preferences: { ...user.preferences, ...preferences } }
WithPreferences(u, v) == [id |-> u.id, preferences |-> [notifications |-> v]]

\* useAuthStore.updatePreferences
updatePreferences(v) ==
  /\ IF ~HasUser
     THEN UNCHANGED storeVars
     ELSE StoreSet(WithPreferences(user, v), isAuthenticated, isLoading, error)
  /\ session' = "used"
  /\ UNCHANGED <<nonAuthVars, hydrated, authToken, secureToken, tokenLoad, authOps,
                 dataReqs, alert>>

\* useAuthStore.clearError
clearError ==
  /\ StoreSet(user, isAuthenticated, isLoading, NoError)
  /\ UNCHANGED <<nonAuthVars, hydrated, authToken, secureToken, tokenLoad, authOps,
                 dataReqs, session, alert>>

\* request interceptor: Authorization is set only when this.authToken is set
RequestHeader(token) == token

\* a screen of the main stack sends an API request
SendRequest ==
  /\ hydrated
  /\ "MainTabs" \in RegisteredScreens
  /\ Cardinality(dataReqs) < MaxRequests
  /\ dataReqs' = dataReqs \cup {[pc |-> "sent", status |-> 0,
                                header |-> RequestHeader(authToken)]}
  /\ session' = "used"
  /\ UNCHANGED <<nonAuthVars, storeVars, hydrated, authToken, secureToken, tokenLoad,
                 authOps, alert>>

\* the response interceptor: a 2xx is returned, an error rejected, after
\* handleAuthError when the status is 401
RequestSettles(r, status) ==
  /\ r \in dataReqs
  /\ r.pc = "sent"
  /\ dataReqs' = (dataReqs \ {r}) \cup
       (CASE status = 200 -> {}
          [] status = 401 -> {[r EXCEPT !.pc = "authErr", !.status = status]}
          [] OTHER -> {[r EXCEPT !.pc = "rejected", !.status = status]})
  /\ UNCHANGED <<nonAuthVars, storeVars, hydrated, authToken, secureToken, tokenLoad,
                 authOps, session, alert>>

\* handleAuthError: the token is deleted and this.authToken cleared; nothing
\* else
handleAuthError ==
  /\ secureToken' = NoToken
  /\ authToken' = NoToken
  /\ UNCHANGED storeVars

RequestAuthErrorHandled(r) ==
  /\ r \in dataReqs
  /\ r.pc = "authErr"
  /\ handleAuthError
  /\ dataReqs' = (dataReqs \ {r}) \cup {[r EXCEPT !.pc = "rejected"]}
  /\ UNCHANGED <<nonAuthVars, hydrated, tokenLoad, authOps, session, alert>>

\* the caller of the rejected request catches the error
RequestRejected(r) ==
  /\ r \in dataReqs
  /\ r.pc = "rejected"
  /\ dataReqs' = dataReqs \ {r}
  /\ UNCHANGED <<nonAuthVars, storeVars, hydrated, authToken, secureToken, tokenLoad,
                 authOps, session, alert>>

\* the app is closed and started again: memory is lost, AsyncStorage and
\* SecureStore are kept; the MLBApiService constructor starts loadAuthToken
Restart ==
  /\ user' = NoUser
  /\ isAuthenticated' = FALSE
  /\ isLoading' = FALSE
  /\ error' = NoError
  /\ hydrated' = FALSE
  /\ authToken' = NoToken
  /\ tokenLoad' = "pending"
  /\ authOps' = {}
  /\ dataReqs' = {}
  /\ alert' = NoAlert
  /\ session' = "restarted"
  /\ UNCHANGED <<nonAuthVars, authStorage, secureToken>>

\* persist merges 'auth-storage' into the store
Rehydrate ==
  /\ ~hydrated
  /\ hydrated' = TRUE
  /\ IF authStorage.present
     THEN /\ user' = authStorage.user
          /\ isAuthenticated' = authStorage.isAuthenticated
          /\ isLoading' = authStorage.isLoading
          /\ error' = authStorage.error
     ELSE UNCHANGED <<user, isAuthenticated, isLoading, error>>
  /\ UNCHANGED <<nonAuthVars, authStorage, authToken, secureToken, tokenLoad, authOps,
                 dataReqs, session, alert>>

\* loadAuthToken: this.authToken = await SecureStore.getItemAsync('auth_token')
loadAuthToken ==
  /\ tokenLoad = "pending"
  /\ tokenLoad' = "done"
  /\ authToken' = secureToken
  /\ UNCHANGED <<nonAuthVars, storeVars, hydrated, secureToken, authOps, dataReqs,
                 session, alert>>

\* LoginScreen / RegisterScreen `loading`: true from setLoading(true) to the
\* finally block of handleLogin / handleRegister; the buttons are disabled
\* while it is
ScreenLoading == LoginOps(authOps) # {}

\* LoginScreen.handleLogin / RegisterScreen.handleRegister
handleLogin(kind, filled) ==
  /\ Booted
  /\ "Login" \in RegisteredScreens
  /\ ~ScreenLoading
  /\ IF filled
     THEN StoreLogin(kind)
     ELSE /\ alert' = "Please fill in all fields"
          /\ UNCHANGED <<nonAuthVars, storeVars, hydrated, authToken, secureToken,
                         tokenLoad, authOps, dataReqs, session>>

\* SettingsScreen.handleLogout, confirmed
handleLogout ==
  /\ Booted
  /\ "MainTabs" \in RegisteredScreens
  /\ ScreenLogout

AuthCompletions ==
  \/ \E op \in authOps, a \in Accounts : AuthPostSucceeds(op, a)
  \/ \E op \in authOps, status \in {0, 400, 401} : AuthPostFails(op, status)
  \/ \E op \in authOps : LoginStored(op)
  \/ \E op \in authOps, status \in {200, 0, 401} : LogoutPostSettles(op, status)
  \/ \E op \in authOps : LogoutDeleted(op)
  \/ \E op \in authOps : AuthErrorHandled(op)

\* the app as its screens drive it
AuthNext ==
  \/ \E kind \in {"login", "register"}, filled \in BOOLEAN : handleLogin(kind, filled)
  \/ handleLogout
  \/ AuthCompletions
  \/ SendRequest
  \/ \E r \in dataReqs, status \in {200, 401, 500} : RequestSettles(r, status)
  \/ \E r \in dataReqs : RequestAuthErrorHandled(r)
  \/ \E r \in dataReqs : RequestRejected(r)
  \/ Restart
  \/ Rehydrate
  \/ loadAuthToken

\* the auth store called directly, in any order and with any overlap
StoreNext ==
  \/ \E kind \in {"login", "register"} : StoreLogin(kind)
  \/ StoreLogout
  \/ \E v \in BOOLEAN : updatePreferences(v)
  \/ clearError
  \/ AuthCompletions

\* ======================================================================
\* useSearchStore called directly; Date.now()
\* ======================================================================
\* time passes
Tick ==
  /\ now < MaxClock
  /\ now' = now + 1
  /\ UNCHANGED <<request, response, resolverVars, clientVars, teamVars, authVars,
                 cacheVars, favVars, searchCalls>>

\* the search made at time t: its query and the results it found
SampleSearch(t) ==
  IF t % 2 = 0 THEN [query |-> <<"judge">>, results |-> Players]
  ELSE [query |-> <<"zzz">>, results |-> <<>>]

\* useSearchStore.addSearch(query, results)
AddSearch(query, res) ==
  /\ recentSearches' = addSearch(recentSearches, query, res)
  /\ UNCHANGED <<request, response, resolverVars, teamVars, appVars, screenPc,
                 screenQuery, loading, nlResponse, results, playerReq, hookPc,
                 hookQuery, hookLoading, hookResults, nlOutcome>>

\* useSearchStore.clearSearchHistory
clearSearchHistory ==
  /\ recentSearches' = <<>>
  /\ UNCHANGED <<request, response, resolverVars, teamVars, appVars, screenPc,
                 screenQuery, loading, nlResponse, results, playerReq, hookPc,
                 hookQuery, hookLoading, hookResults, nlOutcome>>

HistoryNext ==
  \/ Tick
  \/ AddSearch(SampleSearch(now).query, SampleSearch(now).results)
  \/ clearSearchHistory

\* ======================================================================
\* Specifications
\* ======================================================================
vars == <<request, response, resolverVars, clientVars, teamVars, appVars>>

Init ==
  /\ request = NoMsg
  /\ response = NoMsg
  /\ ResolverIdle
  /\ screenPc = "idle"
  /\ screenQuery = <<>>
  /\ loading = FALSE
  /\ nlResponse = NoResult
  /\ results = <<>>
  /\ recentSearches = <<>>
  /\ playerReq = "none"
  /\ hookPc = "idle"
  /\ hookQuery = <<>>
  /\ hookLoading = FALSE
  /\ hookResults = NoResult
  /\ nlOutcome = NoOutcome
  /\ teamPc = "idle"
  /\ profileReq = "none"
  /\ gamesReq = [state |-> "none", payload |-> NotAnArray]
  /\ team = NoTeam
  /\ recentGames = <<>>
  /\ upcomingGames = <<>>
  /\ teamLoading = TRUE
  /\ refreshing = FALSE
  /\ statsChart = FALSE
  /\ user = NoUser
  /\ isAuthenticated = FALSE
  /\ isLoading = FALSE
  /\ error = NoError
  /\ authStorage = NotPersisted
  /\ hydrated = TRUE
  /\ authToken = NoToken
  /\ secureToken = NoToken
  /\ tokenLoad = "done"
  /\ authOps = {}
  /\ dataReqs = {}
  /\ session = "cold"
  /\ alert = NoAlert
  /\ now = 0
  /\ cacheItems = [k \in CacheKeys |-> NoItem]
  /\ cacheGets = {}
  /\ cacheReturned = NoReturn
  /\ favoriteTeams = <<>>
  /\ favoritePlayers = <<>>
  /\ favOps = {}
  /\ favSettled = NoSettled
  /\ searchCalls = {}

ResolverNext ==
  \/ BackendReceive
  \/ ExtractStep
  \/ ClassifyStep
  \/ PlanStep
  \/ \E i \in 1..Len(stepState) : DispatchStep(i)
  \/ \E i \in 1..Len(stepState) : StepSucceeds(i)
  \/ \E i \in 1..Len(stepState), cause \in {"failed", "timeout"} : StepFails(i, cause)
  \/ ExecuteDone
  \/ Respond
  \/ Cancel
  \/ Reply

\* the resolver with a caller that sends any text and may cancel
Next ==
  \/ \E t \in Texts : DirectSend(t)
  \/ DirectReturn
  \/ ResolverNext

Spec == Init /\ [][Next]_vars

\* the mobile client's search operations against the resolver
ClientNext ==
  \/ \E q \in SampleQueries : HandleSearch(q)
  \/ \E status \in {0, 500} : RequestFails(status)
  \/ NLSearchSettles
  \/ HandleSearchAfterNL
  \/ \E o \in PlayerSearchOutcomes : PlayerSearchSettles(o)
  \/ \E q \in SampleQueries : HookSearch(q)
  \/ HookAfterNL
  \/ \E t \in SampleQueries : OtherClientSend(t)
  \/ DirectReturn
  \/ ResolverNext

SpecClient == Init /\ [][ClientNext]_vars

\* concurrent fetches: the resolver's sibling Fetch Steps and the client's
\* paired team-profile/team-games fetch
FetchNext ==
  \/ \E t \in SampleQueries : DirectSend(t)
  \/ DirectReturn
  \/ ResolverNext
  \/ \E isRefresh \in BOOLEAN : LoadTeamData(isRefresh)
  \/ \E ok \in BOOLEAN : ProfileSettles(ok)
  \/ \E ok \in BOOLEAN, payload \in GamesPayloads : GamesSettles(ok, payload)
  \/ LoadTeamDataResumes

SpecFetch == Init /\ [][FetchNext]_vars

SpecAuth == Init /\ [][AuthNext]_vars

SpecStore == Init /\ [][StoreNext]_vars

SpecHistory == Init /\ [][HistoryNext]_vars

SpecCache == Init /\ [][CacheNext]_vars

SpecFavorites == Init /\ [][FavoritesNext]_vars

SpecOverlap == Init /\ [][OverlapNext]_vars

\* ======================================================================
\* Properties of the resolver
\* ======================================================================
Chain == <<"RECEIVED", "EXTRACTED", "CLASSIFIED", "PLANNED", "EXECUTED">>

IsPrefixOf(s, t) == Len(s) <= Len(t) /\ SubSeq(t, 1, Len(s)) = s

Front(s) == SubSeq(s, 1, Len(s) - 1)

\* the stages of a call are a prefix of the chain, then at most one terminal
\* state out of T; ANSWERED only after the whole chain
WellFormedTrace(T) ==
  \/ IsPrefixOf(trace, Chain)
  \/ /\ Len(trace) >= 2
     /\ IsPrefixOf(Front(trace), Chain)
     /\ Stage \in T
     /\ Stage = "ANSWERED" => Front(trace) = Chain

ResultMatchesStage ==
  /\ Stage = "ANSWERED" <=> result.kind = "answer"
  /\ Stage = "CLARIFICATION_NEEDED" <=> result.kind = "clarification"
  /\ Stage \notin Terminal <=> result = NoResult

\* some step of the pipeline is possible: the guards of ExtractStep,
\* ClassifyStep, PlanStep, DispatchStep, StepSucceeds, ExecuteDone, Respond
CallCanStep ==
  \/ Stage \in {"RECEIVED", "EXTRACTED", "CLASSIFIED", "EXECUTED"}
  \/ /\ Stage = "PLANNED"
     /\ \/ AllStepsDone(stepState)
        \/ \E i \in 1..Len(stepState) : stepState[i] = "inflight"
        \/ \E i \in 1..Len(stepState) : stepState[i] = "waiting" /\ DepsMet(i)

C2_NeverThrows ==
  nlOutcome # NoOutcome =>
    /\ nlOutcome.state = "returned"
    /\ nlOutcome.value.kind \in {"answer", "clarification"}

OnlyWhitespace(t) == \A i \in 1..Len(t) : t[i] = Blank

\* C3: an empty query never reaches the resolver: a request with empty text
\* leaves the resolver untouched and is not answered with a 200 (the backend
\* answers 400); the Entity Extractor only ever runs on a non-empty text;
\* handleSearch and useNaturalLanguageSearch.search have no request in
\* flight and no loading state for a query that is empty or only whitespace.
C3_EmptyQueryRejected ==
  /\ [](/\ (request # NoMsg /\ request.origin \in {"screen", "hook"})
              => ~OnlyWhitespace(request.text)
        /\ (loading \/ screenPc # "idle") => ~OnlyWhitespace(screenQuery)
        /\ (hookLoading \/ hookPc # "idle") => ~OnlyWhitespace(hookQuery)
        /\ trace # <<>> => queryText # <<>>
        /\ (response # NoMsg /\ response.status = 400) => trace = <<>>)
  /\ [][(request # NoMsg /\ request.text = <<>> /\ request' = NoMsg)
          => /\ response' # NoMsg
             /\ response'.status \in {400, 0, 500}
             /\ UNCHANGED resolverVars]_vars
  /\ [][(request # NoMsg /\ request.text = <<>> /\ request' = NoMsg
           /\ response' # NoMsg /\ response'.status \notin {0, 500})
          => response'.status = 400]_vars

C3_Witness ==
  /\ response # NoMsg
  /\ response.status = 400
  /\ response.origin = "direct"
  /\ trace = <<>>
  /\ extracted = <<>>

FatalStepFailed ==
  \E i \in 1..Len(stepState) : queryPlan[i].fatal /\ stepState[i] = "failed"

TolerableSteps == {i \in 1..Len(queryPlan) : ~queryPlan[i].fatal}

FailedTolerable == {i \in TolerableSteps : stepState[i] = "failed"}

\* C5: a failed tolerable step is recorded as a gap and execution continues;
\* the Answer has partial = true exactly when some tolerable step failed,
\* and its facts hold the data of every step that succeeded.
C5_PartialResultLaw ==
  /\ gaps = {queryPlan[i].name : i \in FailedTolerable}
  /\ (FailedTolerable # {} /\ ~FatalStepFailed) => Stage # "CLARIFICATION_NEEDED"
  /\ Stage \in {"EXECUTED", "ANSWERED"} =>
       /\ answer.kind = "answer"
       /\ answer.partial <=> FailedTolerable # {}
       /\ \A i \in 1..Len(queryPlan) :
            stepState[i] = "ok" =>
              /\ queryPlan[i].name \in DOMAIN answer.facts
              /\ answer.facts[queryPlan[i].name] = FactData(queryPlan, i)
  /\ result.kind = "answer" => result = answer

C5_Witness ==
  /\ result.kind = "answer"
  /\ result.partial
  /\ Cardinality(TolerableSteps) >= 2
  /\ Cardinality(FailedTolerable) = 1
  /\ Cardinality(DOMAIN result.facts \cap {BoxNames[i] : i \in 1..Len(BoxNames)})
       = Cardinality(TolerableSteps) - 1

SpanCandidates(i) ==
  {extracted[i].candidates[j] : j \in 1..Len(extracted[i].candidates)}

\* two different players of one span whose confidence ties at the top
TiedPlayerPairs ==
  {p \in UNION {SpanCandidates(i) \X SpanCandidates(i) : i \in 1..Len(extracted)} :
     /\ p[1].kind = "player" /\ p[2].kind = "player"
     /\ p[1].entity # p[2].entity
     /\ p[1].confidence = p[2].confidence
     /\ \A c \in UNION {SpanCandidates(i) : i \in 1..Len(extracted)} :
          (c.span = p[1].span /\ c.kind = "player") => c.confidence <= p[1].confidence}

\* C6: when a span matches two different players with tied confidence and
\* the intent needs a player, no plan is built and no Answer is produced;
\* resolve returns a ClarificationRequest with reason AMBIGUOUS_ENTITY whose
\* suggestions list both players.
C6_AmbiguousEntity ==
  \A p \in TiedPlayerPairs :
    (ranked # <<>> /\ "player" \in ChosenIntent.required) =>
      /\ queryPlan = <<>>
      /\ answer = NoResult
      /\ result.kind # "answer"
      /\ Stage \in {"CLASSIFIED", "CLARIFICATION_NEEDED", "CANCELLED"}
      /\ Stage = "CLARIFICATION_NEEDED" =>
           /\ result.reason = "AMBIGUOUS_ENTITY"
           /\ {p[1].entity, p[2].entity} \subseteq {s.entity : s \in result.suggestions}

C6_Witness ==
  /\ Tokenize(queryText) = <<"judge">>
  /\ result.kind = "clarification"
  /\ result.reason = "AMBIGUOUS_ENTITY"
  /\ {s.entity : s \in result.suggestions} = {592450, 457706}

IntentSatisfiable(i) ==
  /\ \A k \in Intents[i].required :
       \E n \in 1..Len(extracted) : \E c \in SpanCandidates(n) : c.kind = k
  /\ \/ Intents[i].keywords = {}
     \/ \E n \in 1..Len(Tokenize(queryText)) : Tokenize(queryText)[n] \in Intents[i].keywords

\* C7: a Query Plan exists only for a chosen intent whose required kinds
\* all have a candidate; when no intent is eligible the call halts before
\* planning with a ClarificationRequest of reason UNRECOGNIZED_QUERY.
C7_PlanOnlyWhenBound ==
  /\ (queryPlan # <<>> \/ "PLANNED" \in {trace[n] : n \in 1..Len(trace)}) =>
       /\ ranked # <<>>
       /\ \E i \in 1..Len(Intents) : Intents[i] = ChosenIntent /\ IntentSatisfiable(i)
       /\ \A k \in ChosenIntent.required : \E c \in boundEntities : c.kind = k
  /\ (Len(trace) >= 3 /\ Stage # "CANCELLED"
        /\ \A i \in 1..Len(Intents) : ~IntentSatisfiable(i)) =>
       /\ trace = <<"RECEIVED", "EXTRACTED", "CLARIFICATION_NEEDED">>
       /\ result.kind = "clarification"
       /\ result.reason = "UNRECOGNIZED_QUERY"
       /\ queryPlan = <<>>

C7_Witness ==
  /\ result.kind = "clarification"
  /\ result.reason = "UNRECOGNIZED_QUERY"
  /\ \E n \in 1..Len(extracted) : \E c \in SpanCandidates(n) : c.kind = "venue"
  /\ queryPlan = <<>>

\* C8: an Answer's confidence is at most the confidence of every candidate
\* match it binds.
C8_ConfidenceIsMinimum ==
  /\ answer.kind = "answer" =>
       /\ answer.boundEntities = boundEntities
       /\ \A c \in answer.boundEntities : answer.confidence <= c.confidence
  /\ result.kind = "answer" =>
       \A c \in result.boundEntities : result.confidence <= c.confidence

C8_Witness ==
  /\ result.kind = "answer"
  /\ \E c, d \in result.boundEntities : c.confidence < d.confidence
  /\ result.confidence = 80

\* C9: for every completion order of the concurrently dispatched sibling
\* Fetch Steps, the aggregated output equals that of executing the plan one
\* step at a time in declared order, and derived facts are computed only
\* after every step has completed; loadTeamData applies no result (team,
\* recent/upcoming games, chart) before both the profile and the games
\* request have returned.
C9_OrderIndependent ==
  /\ [](Stage \in {"EXECUTED", "ANSWERED"} =>
          /\ AllStepsDone(stepState)
          /\ answer = ExecuteInOrder(ChosenIntent, boundEntities, queryPlan,
                                     stepState, 1, {}, {})
          /\ Stage = "ANSWERED" => result = answer)
  /\ [][(team' # team \/ recentGames' # recentGames
           \/ upcomingGames' # upcomingGames \/ statsChart' # statsChart)
          => (profileReq = "fulfilled" /\ gamesReq.state = "fulfilled")]_vars

\* a later sibling has completed while an earlier one is still in flight, and
\* the games request has returned while the profile request is pending
C9_Witness ==
  /\ Stage = "PLANNED"
  /\ \E i, j \in 1..Len(stepState) :
       /\ i < j
       /\ stepState[i] = "inflight"
       /\ stepState[j] \in {"ok", "failed"}
  /\ teamPc = "loading"
  /\ gamesReq.state = "fulfilled"
  /\ profileReq = "pending"
  /\ team = NoTeam

\* C10: once the caller has cancelled a resolve call, no Fetch Step is
\* outstanding, the result is Cancelled (not an Answer, not a
\* ClarificationRequest), and nothing further happens to the call: no step
\* is dispatched again and the Cancelled result is what is returned.
C10_Cancellation ==
  /\ [](Stage = "CANCELLED" =>
          /\ result = Cancelled
          /\ \A j \in 1..Len(stepState) : stepState[j] \notin {"inflight", "waiting"})
  /\ [][Stage = "CANCELLED" =>
          /\ response' = [origin |-> caller, status |-> 200, body |-> Cancelled]
          /\ trace' = <<>>]_vars

C10_Witness ==
  /\ Stage = "CANCELLED"
  /\ Cardinality({j \in 1..Len(stepState) : stepState[j] = "cancelled"}) >= 2
  /\ \E j \in 1..Len(stepState) : stepState[j] = "ok"
\* the step in which a useAuthStore.logout call ends
LogoutEnds ==
  /\ hydrated'
  /\ \E op \in authOps :
       op.kind = "logout" /\ op.layer = "store" /\ op.pc = "delete" /\ op \notin authOps'

C12_LogoutOn401 ==
  \A r \in dataReqs :
    (r.pc = "rejected" /\ r.status = 401) =>
      /\ secureToken = NoToken
      /\ authToken = NoToken
      /\ isAuthenticated = FALSE
      /\ user = NoUser
      /\ RegisteredScreens = AuthScreens

\* the app has been restarted and has finished starting; nothing else has
\* happened since, and no store call was in progress when it was closed
Restored == session = "restarted" /\ hydrated /\ tokenLoad = "done" /\ ~isLoading

\* C13: after a restart the auth store is authenticated exactly as persisted
\* and then the API client holds the token of the restored user, as stored in
\* secure storage; an app restored as unauthenticated has no token.
C13_PersistentAuth ==
  Restored =>
    IF isAuthenticated
    THEN user # NoUser /\ authToken = TokenOf(user) /\ secureToken = authToken
    ELSE authToken = NoToken /\ secureToken = NoToken

\* C14: the root stack registers the main screens exactly when
\* isAuthenticated is true and the auth screens exactly when it is false,
\* never both; a change of isAuthenticated alone switches between them.
C14_AuthFlowGuard ==
  /\ [](/\ isAuthenticated <=> MainScreens \subseteq RegisteredScreens
        /\ ~isAuthenticated <=> AuthScreens \subseteq RegisteredScreens
        /\ RegisteredScreens \in {MainScreens, AuthScreens}
        /\ RegisteredScreens \cap MainScreens = {}
             \/ RegisteredScreens \cap AuthScreens = {})
  /\ [][isAuthenticated' # isAuthenticated => RegisteredScreens' # RegisteredScreens]_vars

\* logged in: the main screens are registered
C14_Witness ==
  /\ isAuthenticated
  /\ RegisteredScreens = MainScreens
  /\ secureToken # NoToken
  /\ authOps = {}

\* the step in which a login or register call fails
LoginFails ==
  \E op \in LoginOps(authOps) :
    /\ op.pc \in {"post", "authErr"}
    /\ op.id \notin {o.id : o \in LoginOps(authOps')}

FailureMessages == {"Login failed", "Registration failed", "Invalid credentials"}

\* C17: when a login or register call fails, error is set to the failure
\* message, isLoading to false, user and isAuthenticated are unchanged, no
\* token is stored and the error reaches the caller; user and
\* isAuthenticated = true are set only when a call succeeds.
C17_FailedLoginChangesNothing ==
  /\ [][LoginFails =>
          /\ user' = user
          /\ isAuthenticated' = isAuthenticated
          /\ isLoading' = FALSE
          /\ error' \in FailureMessages
          /\ alert' = error'
          /\ secureToken' \in {secureToken, NoToken}
          /\ authToken' \in {authToken, NoToken}]_vars
  /\ [][((isAuthenticated' /\ ~isAuthenticated) \/ (user' # user /\ user'.id # user.id /\ user' # NoUser))
          => /\ isAuthenticated'
             /\ \E op \in LoginOps(authOps) :
                  op.pc = "store" /\ user' = op.acct /\ secureToken' = op.token]_vars

\* a login has failed while another had already succeeded
C17_Witness ==
  /\ error \in FailureMessages
  /\ alert = error
  /\ ~isLoading
  /\ isAuthenticated
  /\ user # NoUser
  /\ secureToken = TokenOf(user)

\* C18: in every state of the auth store isAuthenticated is true exactly when
\* user is non-null, for any sequence and overlap of login, register, logout
\* and updatePreferences calls.
C18_AuthenticatedIffUser ==
  /\ isAuthenticated <=> user # NoUser
  /\ authStorage.present => (authStorage.isAuthenticated <=> authStorage.user # NoUser)

\* a login and a logout overlap while the store is authenticated
C18_Witness ==
  /\ isAuthenticated
  /\ user # NoUser
  /\ \E op \in authOps : op.kind = "logout"
  /\ \E op \in authOps : op.kind \in {"login", "register"} /\ op.pc = "store"

\* C19: whenever a token is held in secure storage, a request the API client
\* sends carries that token in its Authorization header.
C19_RequestsCarryToken ==
  [][\A r \in dataReqs' \ dataReqs :
       (r.pc = "sent" /\ secureToken # NoToken) => r.header = secureToken]_vars

\* C15: recentSearches never holds more than 20 entries and is ordered
\* newest first; addSearch puts the new entry, with results = the number of
\* results passed, at index 0 in front of the first 19 entries there were, so
\* exactly the oldest of 20 is dropped; clearSearchHistory empties the list.
C15_HistoryBoundedAndOrdered ==
  /\ [](/\ Len(recentSearches) <= 20
        /\ \A i, j \in 1..Len(recentSearches) :
             i < j => recentSearches[i].timestamp >= recentSearches[j].timestamp)
  /\ [][(recentSearches' # recentSearches /\ recentSearches' # <<>>) =>
          /\ recentSearches'[1] = [id |-> now, query |-> SampleSearch(now).query,
                                   timestamp |-> now,
                                   results |-> Len(SampleSearch(now).results)]
          /\ IF Len(recentSearches) = 20
             THEN Tail(recentSearches') = Front(recentSearches)
             ELSE Tail(recentSearches') = recentSearches]_vars

\* the list is full, its entries were added at different times
C15_Witness ==
  /\ Len(recentSearches) = 20
  /\ recentSearches[1].timestamp = MaxClock
  /\ recentSearches[20].timestamp = 0
  /\ recentSearches[1].results # recentSearches[20].results

\* the call g of cacheStorage.get returns in this step
CacheGetReturns(g) == g \in cacheGets /\ \A h \in cacheGets' : h.id # g.id

\* C16: cacheStorage.get returns null for a key with no item; for the item it
\* read it returns the item's data if at most ttl has elapsed since the item
\* was set, and otherwise returns null with the entry removed; no call returns
\* data older than its ttl.
C16_CacheTtl ==
  [][\A g \in cacheGets :
       CacheGetReturns(g) =>
         /\ cacheReturned'.returned
         /\ cacheReturned'.key = g.key
         /\ cacheReturned'.at = now
         /\ IF g.item.present /\ now - g.item.timestamp <= g.item.ttl /\ g.pc = "read"
            THEN cacheReturned'.value = g.item.data
            ELSE cacheReturned'.value = Null
         /\ (g.item.present /\ cacheReturned'.value = Null) =>
              (g.pc = "removing" /\ ~cacheItems'[g.key].present)
         /\ g.pc = "removing" => g.item.timestamp + g.item.ttl < now]_vars

\* data was returned exactly ttl after it was set
C16_Witness ==
  /\ cacheReturned.returned
  /\ cacheReturned.value # Null
  /\ cacheItems[cacheReturned.key].present
  /\ cacheItems[cacheReturned.key].data = cacheReturned.value
  /\ cacheItems[cacheReturned.key].ttl = DefaultTtl
  /\ cacheReturned.at - cacheItems[cacheReturned.key].timestamp = DefaultTtl

NoDuplicates(list) == \A i, j \in 1..Len(list) : list[i] = list[j] => i = j

\* C20: favoriteTeams and favoritePlayers never contain an id twice, whatever
\* the order in which add calls (two of the same id included) and removes
\* run; a team operation leaves favoritePlayers unchanged and a player
\* operation leaves favoriteTeams unchanged.
C20_FavoritesNoDuplicates ==
  /\ [](NoDuplicates(favoriteTeams) /\ NoDuplicates(favoritePlayers))
  /\ [][/\ favoriteTeams' = favoriteTeams \/ favoritePlayers' = favoritePlayers
        /\ \A op \in favOps \ favOps' :
             /\ op.kind = "team" => favoritePlayers' = favoritePlayers
             /\ op.kind = "player" => favoriteTeams' = favoriteTeams]_vars

\* a team is in the list once while a second add of the same team, started
\* while another call was in progress, has yet to settle
C20_Witness ==
  /\ favoriteTeams = <<1>>
  /\ favoritePlayers = <<2>>
  /\ \E op \in favOps : op.call = MaxFavOps /\ op.kind = "team" /\ op.id = 1

\* the add call op settles in this step
AddFavoriteSettles(op) == op \in favOps /\ \A o \in favOps' : o.call # op.call

\* C21: an add call whose backend call fails leaves favoriteTeams and
\* favoritePlayers unchanged and rejects with the backend call's error; one
\* whose backend call succeeds resolves with the id in its list; an id enters
\* a list only in the step in which an add call of that id resolves.
C21_FavoriteAddedAfterBackend ==
  [][/\ \A op \in favOps :
          AddFavoriteSettles(op) =>
            /\ favSettled'.outcome \in {"resolved", "rejected"}
            /\ favSettled'.call = op.call
            /\ favSettled'.kind = op.kind
            /\ favSettled'.id = op.id
            /\ favSettled'.outcome = "rejected" =>
                 /\ favoriteTeams' = favoriteTeams
                 /\ favoritePlayers' = favoritePlayers
                 /\ favSettled'.error \in
                      (ResponseMessages \ {NoMessage})
                        \cup {"Failed to add favorite team", "Failed to add favorite player"}
            /\ favSettled'.outcome = "resolved" =>
                 IF op.kind = "team" THEN isFavoriteTeam(op.id)'
                 ELSE isFavoritePlayer(op.id)'
     /\ \A id \in FavIds :
          /\ (isFavoriteTeam(id)' /\ ~isFavoriteTeam(id)) =>
               \E op \in favOps : /\ AddFavoriteSettles(op)
                                  /\ op.kind = "team" /\ op.id = id
                                  /\ favSettled'.outcome = "resolved"
          /\ (isFavoritePlayer(id)' /\ ~isFavoritePlayer(id)) =>
               \E op \in favOps : /\ AddFavoriteSettles(op)
                                  /\ op.kind = "player" /\ op.id = id
                                  /\ favSettled'.outcome = "resolved"]_vars

\* an add of a team was rejected with the default error and the team is not
\* in the list, while another team and a player are
C21_Witness ==
  /\ favSettled.outcome = "rejected"
  /\ favSettled.kind = "team"
  /\ favSettled.error = "Failed to add favorite team"
  /\ ~isFavoriteTeam(favSettled.id)
  /\ favoriteTeams # <<>>
  /\ favoritePlayers # <<>>

\* C22: once the natural-language search of a handleSearch call has settled
\* (with a result, with nothing, or with an error) the player search is
\* requested, and handleSearch ends with loading = false.
C22_PlayerSearchAlwaysIssued ==
  /\ [][(screenPc = "awaitNL" /\ screenPc' # "awaitNL") =>
          (screenPc' = "awaitPlayers" /\ playerReq' = "pending")]_vars
  /\ [][(screenPc # "idle" /\ screenPc' = "idle") => ~loading']_vars

\* the call submitted last
LatestCall == CHOOSE c \in searchCalls : c.n = Cardinality(searchCalls)

\* C23: when every handleSearch call has finished, what is displayed comes
\* from the call submitted last (its natural-language response if it showed
\* one, its result list if it showed one), whatever the order in which the
\* responses arrived; and loading is true while any call is in progress.
C23_LatestSearchShown ==
  /\ [](InFlight # {} => loading)
  /\ []((searchCalls # {} /\ InFlight = {}) =>
          /\ LatestCall.nlShown => nlResponse = NLBodyFor(LatestCall.query)
          /\ LatestCall.playersShown =>
               results = SearchResultsOf(PlayersFor(LatestCall.query)))

====
